---- MODULE Spec2Model ----
(***************************************************************************)
(* Bedrock knowledge-base cleaners (delete_bedrock_kbs.py, "v1", and       *)
(* delete_bedrock_kbs_v2.py, "v2") and the provisioning script kb_test.py, *)
(* as state machines.  One action per remote call; the control flow        *)
(* between two remote calls is folded into the action of the earlier call. *)
(* The provider is the environment: every remote call draws its outcome    *)
(* from the exceptions the calling code distinguishes.                     *)
(***************************************************************************)
EXTENDS Integers, Sequences, FiniteSets, TLC

\* ------------------------------------------------------------------ bounds
MaxKBs == 3       \* knowledge bases the enumeration may return
MaxDS == 2        \* data sources list_data_sources may return for one KB
MaxBatch == 2     \* largest --batch-size tried (the smallest is -1)

PollWrap == 2     \* polls of an uncounted while-loop are counted modulo this
MaxCallSeconds == 5   \* longest time one status request takes
MaxHandlerEvents == 8 \* events of the TimeoutHandler walk-through that are logged

\* -------------------------------------------------------- program constants
max_retries == 3  \* default of delete_data_source / delete_knowledge_base
index_timeout == 120    \* wait_for_index_ready(timeout=120, ...)
index_interval == 5     \* wait_for_index_ready(..., interval=5)
alias_timeout == 600    \* wait_for_alias_ready(timeout=600)
alias_interval == 5     \* time.sleep(5) in wait_for_alias_ready
agent_max_retries == 60 \* wait_for_agent_status(max_retries=60, ...)

Versions == {"v1", "v2"}

\* Answers typed at the confirmation prompt.
Responses == {"DELETE", "delete", "DELETE ", "yes", ""}

\* --batch-size is an unvalidated int (v2 only; v1 has no batching, 0 there).
BatchSizes == (-1) .. MaxBatch

Min(a, b) == IF a < b THEN a ELSE b

\* --------------------------------------------------------- error messages
\* A message is a sequence of words; str.lower() acts word by word and the
\* substring test 'vector store' in ... is adjacency of the two words.
Words == {"Vector", "VECTOR", "vector", "Store", "store", "Access", "denied",
          "is", "busy", "vectorstore"}

Lower(w) ==
  CASE w \in {"Vector", "VECTOR", "vector"} -> "vector"
    [] w \in {"Store", "store"} -> "store"
    [] w = "Access" -> "access"
    [] OTHER -> w

LowerAll(msg) == [p \in 1 .. Len(msg) |-> Lower(msg[p])]

ContainsVectorStore(msg) ==
  \E p \in 1 .. (Len(msg) - 1) : msg[p] = "vector" /\ msg[p + 1] = "store"

\* Error messages the provider may put in a ClientError.
Messages ==
  { <<"Access", "denied">>,
    <<"vector", "store", "is", "busy">>,
    <<"Vector", "Store", "is", "busy">>,
    <<"vectorstore", "is", "busy">>,
    <<"vector", "is", "busy", "store">> }

\* v2 tests str(e), the message behind botocore's fixed prefix.
ErrorText(v, msg) ==
  IF v = "v2" THEN <<"An", "error", "occurred:">> \o msg ELSE msg

\* Faulty variant: every ClientError is taken for the vector store error.
IsVectorStoreError_anyError(v, msg) == TRUE

\* 'vector store' in error_message.lower()
IsVectorStoreError(v, msg) == ContainsVectorStore(LowerAll(ErrorText(v, msg)))

\* Outcomes of one remote call, as the calling code tells them apart: it
\* returns, raises ClientError (with a message), raises botocore's
\* ReadTimeoutError when the client's read_timeout passes (not a ClientError,
\* not the built-in TimeoutError), or - in v2, inside a TimeoutHandler block -
\* the alarm raises TimeoutError.
Outcomes(v) ==
  {[kind |-> "ok", message |-> <<>>]}
    \cup {[kind |-> "ClientError", message |-> m] : m \in Messages}
    \cup {[kind |-> "ReadTimeoutError", message |-> <<>>]}
    \cup (IF v = "v2" THEN {[kind |-> "TimeoutError", message |-> <<>>]} ELSE {})

\* ------------------------------------------------------------ the cleaners
VARIABLES
  version,          \* which script runs
  dry_run,          \* --dry-run
  confirm,          \* --confirm
  batch_size,       \* --batch-size (v2)
  pc,               \* position of the script
  exit_code,        \* process exit status, -1 while running
  knowledge_bases,  \* the enumerated list, as the sequence of its ids
  prompted,         \* input() was read
  response,         \* what input() returned
  success_count,
  failure_count,
  kb_index,         \* 1-based position of the KB being processed (0: none)
  batch_start,      \* v2: the outer loop variable
  data_sources,     \* number of data sources listed for the current KB
  ds_index,         \* 1-based position of the data source being deleted
  attempt,          \* loop variable of the running retry loop
  ds_trace,         \* remote calls issued for the current data source
  child_calls,      \* delete_data_source calls issued for the current KB
  child_errors,     \* ... of which raised
  kb_calls,         \* delete_knowledge_base calls issued for the current KB
  kb_errors,        \* ... of which raised
  last_outcome,     \* how the latest remote call for the current KB ended
  mutated,          \* some update_/delete_ call was issued in this run
  batches,          \* v2: batches started
  batch_sleeps,     \* v2: 10-second pauses taken
  kb_sleeps,        \* 2-second pauses taken
  summary_printed,  \* the summary lines were printed
  startup,          \* how building the cleaner ended ("": not yet built)
  listing           \* how the enumeration ended and what it had fetched by then

inputs == <<version, dry_run, confirm, batch_size>>
counts == <<success_count, failure_count>>
loopvars == <<kb_index, batch_start, batches, batch_sleeps, kb_sleeps>>
kbvars == <<data_sources, ds_index, attempt, ds_trace, last_outcome, child_calls,
            child_errors, kb_calls, kb_errors>>
cleaner == <<inputs, pc, exit_code, knowledge_bases, prompted, response,
             counts, loopvars, kbvars, mutated, summary_printed, startup,
             listing>>

\* kb_test.py, the provisioning script
VARIABLES
  pstep,            \* position of the script ("off": it is not the one running)
  polls,            \* polls made by the running while-loop, modulo PollWrap
  elapsed,          \* seconds since start_time in the running timed loop
  agent_attempt,    \* loop variable of wait_for_agent_status
  agent_stage,      \* which wait_for_agent_status call is running (1..4)
  agent_seen,       \* what the latest get_agent of that call gave ("none": none yet)
  alias_seen,       \* what the latest get_agent_alias gave ("none": none yet)
  seen,             \* what the latest poll of each uncounted status loop gave,
                    \* and how the sample retrieve call ended
  ag_created,       \* per action group: create_action_group returned an id
  ag_index,         \* the action group being created or polled
  plog              \* the creating calls that returned, in order

prov == <<pstep, polls, elapsed, agent_attempt, agent_stage, agent_seen,
          alias_seen, seen, ag_created, ag_index, plog>>

\* TimeoutHandler of v2, seen step by step
VARIABLES
  alarm,            \* seconds until SIGALRM is delivered (0: no alarm pending)
  hpc,              \* position relative to the with-block ("off": not looked at)
  timeout_seconds,  \* self.timeout_seconds of the handler last entered
  exc,              \* how the guarded call ended ("none": not yet)
  hlog              \* what happened so far, in order

handler == <<alarm, hpc, timeout_seconds, exc, hlog>>

vars == <<cleaner, prov, handler>>

HandlerOff ==
  /\ alarm = 0
  /\ hpc = "off"
  /\ timeout_seconds = 0
  /\ exc = "none"
  /\ hlog = <<>>

\* No status was polled yet.
NothingSeen ==
  [created |-> "none", collection |-> "none", put |-> "none", index |-> "none",
   kb |-> "none", ingestion |-> "none", retrieve |-> "none",
   invoke |-> "none", answer |-> "not returned"]

ProvOff ==
  /\ pstep = "off"
  /\ polls = 0
  /\ elapsed = 0
  /\ agent_attempt = 0
  /\ agent_stage = 0
  /\ agent_seen = "none"
  /\ alias_seen = "none"
  /\ seen = NothingSeen
  /\ ag_created = <<FALSE, FALSE>>
  /\ ag_index = 0
  /\ plog = <<>>

Total == Len(knowledge_bases)

\* No remote call was made yet for the knowledge base.
NoOutcome == [kind |-> "none", message |-> <<>>]

\* What the code keeps of an outcome: error_message is looked at only after
\* delete_data_source; elsewhere the kind of exception alone decides.
KindOnly(r) == [kind |-> r.kind, message |-> <<>>]

\* list_knowledge_bases has not run.
NotListed == [outcome |-> "none", fetched |-> 0]

\* Nothing has run yet.
CleanerFresh ==
  /\ exit_code = -1
  /\ startup = ""
  /\ listing = NotListed
  /\ knowledge_bases = <<>>
  /\ prompted = FALSE
  /\ response = ""
  /\ success_count = 0
  /\ failure_count = 0
  /\ kb_index = 0
  /\ batch_start = 0
  /\ batches = 0
  /\ batch_sleeps = 0
  /\ kb_sleeps = 0
  /\ data_sources = 0
  /\ ds_index = 0
  /\ attempt = 0
  /\ ds_trace = <<>>
  /\ child_calls = 0
  /\ child_errors = 0
  /\ kb_calls = 0
  /\ kb_errors = 0
  /\ last_outcome = NoOutcome
  /\ mutated = FALSE
  /\ summary_printed = FALSE

\* A cleaner is started with some command line.
Init ==
  /\ ProvOff
  /\ HandlerOff
  /\ version \in Versions
  /\ dry_run \in BOOLEAN
  /\ confirm \in BOOLEAN
  /\ batch_size \in (IF version = "v2" THEN BatchSizes ELSE {0})
  /\ pc = "main"
  /\ CleanerFresh

\* The process ends with the given status.
Exit(code) ==
  /\ pc' = "done"
  /\ exit_code' = code

\* Faulty variant: only missing credentials are fatal.
FatalAtStartup_credentialsOnly(r) == r = "NoCredentialsError"

\* except NoCredentialsError: sys.exit(1); v2: except ClientError:
\* sys.exit(1); any other exception of the v2 probe leaves main with a
\* traceback, status 1 as well.
FatalAtStartup(r) == r # "ok"

\* main() builds the cleaner.  v1 only creates the client; v2 also probes
\* list_knowledge_bases(maxResults=1).
Construct ==
  /\ pc = "main"
  /\ \E r \in {"ok", "NoCredentialsError", "ClientError", "ReadTimeoutError"} :
       /\ r \in {"ClientError", "ReadTimeoutError"} => version = "v2"
       /\ startup' = r
       /\ IF FatalAtStartup(r)
            THEN Exit(1)
            ELSE pc' = "list_knowledge_bases" /\ exit_code' = exit_code
  /\ UNCHANGED <<prov, handler, inputs, listing, knowledge_bases, prompted, response,
                 counts, loopvars, kbvars, mutated, summary_printed>>

\* if not self.dry_run and not confirm
NeedsPrompt(dr, cf) == ~dr /\ ~cf

\* The except clauses around a remote call of the deletion path: ClientError
\* in both scripts, TimeoutError in v2.  Anything else leaves the method.
Caught(v, kind) ==
  \/ kind = "ClientError"
  \/ v = "v2" /\ kind = "TimeoutError"

\* An exception nothing catches ends the process with status 1 (v2: main's
\* except Exception; v1: the interpreter's traceback).
Propagate == Exit(1)

\* The except clauses around the pagination of list_knowledge_bases: those
\* of the deletion path and, in v2, an inner except Exception.
CaughtListing(v, kind) == v = "v2" \/ Caught(v, kind)

\* Faulty variant: the summaries fetched before the error are returned.
Listed_keepsFetched(r, n) == n

\* return knowledge_bases at the end of the pagination, return [] in every
\* except clause: the number of summaries the caller gets.
Listed(r, n) == IF r = "ok" THEN n ELSE 0

\* list_knowledge_bases, then delete_all_knowledge_bases up to the prompt:
\* the pages fetched so far hold n summaries when the pagination ends or
\* raises; a caught error yields the empty list (the local list of fetched
\* summaries is dropped), the empty list ends the run.
ListKnowledgeBases ==
  /\ pc = "list_knowledge_bases"
  /\ \E n \in 0 .. MaxKBs, r \in {"ok", "ClientError", "TimeoutError", "ReadTimeoutError"} :
       LET kbs == [k \in 1 .. Listed(r, n) |-> k] IN
       /\ r = "TimeoutError" => version = "v2"
       /\ listing' = [outcome |-> r, fetched |-> n]
       /\ knowledge_bases' = kbs
       /\ IF r # "ok" /\ ~CaughtListing(version, r)
            THEN Propagate
          ELSE IF kbs = <<>>
            THEN Exit(0)
            ELSE /\ exit_code' = exit_code
                 /\ pc' = IF NeedsPrompt(dry_run, confirm)
                            THEN "prompt" ELSE "start"
  /\ UNCHANGED <<prov, handler, inputs, startup, prompted, response, counts, loopvars, kbvars,
                 mutated, summary_printed>>

\* Faulty variant: the answer is compared without regard to case.
Cancelled_ignoringCase(resp) == resp \notin {"DELETE", "delete"}

\* if response != 'DELETE': return
Cancelled(resp) == resp # "DELETE"

Prompt ==
  /\ pc = "prompt"
  /\ \E resp \in Responses :
       /\ response' = resp
       /\ prompted' = TRUE
       /\ IF Cancelled(resp)
            THEN Exit(0)
            ELSE pc' = "start" /\ exit_code' = exit_code
  /\ UNCHANGED <<prov, handler, inputs, startup, listing, knowledge_bases, counts, loopvars, kbvars, mutated,
                 summary_printed>>

\* Entering the loop over the knowledge bases.  v1: for i, kb in
\* enumerate(knowledge_bases, 1).  v2: for batch_start in range(0, total,
\* batch_size): range raises ValueError for a zero step (main turns it into
\* exit status 1) and is empty for a negative one.
StartDeletion ==
  /\ pc = "start"
  /\ IF version = "v2" /\ batch_size = 0
       THEN Exit(1) /\ UNCHANGED loopvars
       ELSE IF version = "v2" /\ batch_size < 0
         THEN pc' = "summary" /\ exit_code' = exit_code /\ UNCHANGED loopvars
         ELSE /\ pc' = "process"
              /\ exit_code' = exit_code
              /\ kb_index' = 1
              /\ batch_start' = 0
              /\ batches' = IF version = "v2" THEN 1 ELSE 0
              /\ UNCHANGED <<batch_sleeps, kb_sleeps>>
  /\ UNCHANGED <<prov, handler, inputs, startup, listing, knowledge_bases, prompted, response, counts, kbvars,
                 mutated, summary_printed>>

\* batch_end = min(batch_start + batch_size, len(knowledge_bases))
BatchEnd(bs, size, total) == Min(bs + size, total)

\* Faulty variant: the 10-second pause follows every batch, the last one too.
SleepsAfterBatch_always(batch_end, total) == TRUE

\* if batch_end < len(knowledge_bases): time.sleep(10)
SleepsAfterBatch(batch_end, total) == batch_end < total

\* Faulty variant: the 2-second pause follows every knowledge base.
SleepsInBatch_afterEvery(idx, bs, batch_end) == TRUE

\* if i < len(batch) - 1: time.sleep(2), with i = kb_index - batch_start - 1
SleepsInBatch(idx, bs, batch_end) == (idx - bs - 1) < (batch_end - bs) - 1

\* v1: if not self.dry_run and i < len(knowledge_bases): time.sleep(2)
SleepsV1(dr, idx, total) == ~dr /\ idx < total

\* Faulty variant: a knowledge base with a failed data source counts as failed.
CountsAsSuccess_needsChildren(ok, failed_children) == ok /\ failed_children = 0

\* if self.delete_knowledge_base(kb_id, kb_name): success_count += 1
\* else: failure_count += 1.  The value returned is that of the parent
\* deletion; the results of delete_data_source were only printed.
CountsAsSuccess(ok, failed_children) == ok

\* Faulty variant: the next knowledge base is taken up together with the one
\* after it.
NextIndex_twoAtOnce(idx) == idx + 2

\* for i, kb in enumerate(...): the loop takes up one knowledge base, the
\* next in the list, per turn.
NextIndex(idx) == idx + 1

\* delete_knowledge_base returned `ok` for the current KB: count it, pause,
\* and move to the next KB, the next batch, or the summary.
Account(ok) ==
  /\ success_count' = IF CountsAsSuccess(ok, child_errors)
                        THEN success_count + 1 ELSE success_count
  /\ failure_count' = IF CountsAsSuccess(ok, child_errors)
                        THEN failure_count ELSE failure_count + 1
  /\ exit_code' = exit_code
  /\ IF version = "v1"
       THEN /\ kb_sleeps' = IF SleepsV1(dry_run, kb_index, Total)
                              THEN kb_sleeps + 1 ELSE kb_sleeps
            /\ UNCHANGED <<batch_start, batches, batch_sleeps>>
            /\ IF kb_index < Total
                 THEN pc' = "process" /\ kb_index' = NextIndex(kb_index)
                 ELSE pc' = "summary" /\ kb_index' = kb_index
       ELSE LET batch_end == BatchEnd(batch_start, batch_size, Total) IN
            IF kb_index < batch_end
              THEN /\ kb_sleeps' = IF SleepsInBatch(kb_index, batch_start, batch_end)
                                     THEN kb_sleeps + 1 ELSE kb_sleeps
                   /\ pc' = "process"
                   /\ kb_index' = NextIndex(kb_index)
                   /\ UNCHANGED <<batch_start, batches, batch_sleeps>>
              ELSE /\ kb_sleeps' = IF SleepsInBatch(kb_index, batch_start, batch_end)
                                     THEN kb_sleeps + 1 ELSE kb_sleeps
                   /\ batch_sleeps' = IF SleepsAfterBatch(batch_end, Total)
                                        THEN batch_sleeps + 1 ELSE batch_sleeps
                   /\ IF batch_start + batch_size < Total
                        THEN /\ pc' = "process"
                             /\ batch_start' = batch_start + batch_size
                             /\ batches' = batches + 1
                             /\ kb_index' = NextIndex(kb_index)
                        ELSE /\ pc' = "summary"
                             /\ UNCHANGED <<batch_start, batches, kb_index>>

\* Faulty variant: the dry-run test is missing.
SkipsDeletion_never(dr) == FALSE

\* if self.dry_run: return True
SkipsDeletion(dr) == dr

\* delete_knowledge_base in dry-run mode: nothing is called.
DryRunKnowledgeBase ==
  /\ pc = "process"
  /\ SkipsDeletion(dry_run)
  /\ Account(TRUE)
  /\ UNCHANGED <<prov, handler, inputs, startup, listing, knowledge_bases, prompted, response, kbvars, mutated,
                 summary_printed>>

\* The retry loops start at attempt 0.
FirstAttempt == 0

\* Faulty variant: the loop over the data sources is missing.
AfterListing_parentOnly(listed) == "delete_knowledge_base"

\* if data_sources: for ds in data_sources: ...   then the knowledge base
AfterListing(listed) ==
  IF listed > 0 THEN "delete_data_source" ELSE "delete_knowledge_base"

\* delete_knowledge_base begins: list_data_sources (a caught error or
\* timeout yields the empty list), then the first data source or, without
\* any, the knowledge base itself.
ListDataSources ==
  /\ pc = "process"
  /\ ~SkipsDeletion(dry_run)
  /\ \E n \in 0 .. MaxDS, r \in {"ok", "ClientError", "TimeoutError", "ReadTimeoutError"} :
       LET listed == IF r = "ok" THEN n ELSE 0 IN
       /\ r = "TimeoutError" => version = "v2"
       /\ data_sources' = listed
       /\ ds_index' = IF listed > 0 THEN 1 ELSE 0
       /\ IF r = "ok" \/ Caught(version, r)
            THEN pc' = AfterListing(listed) /\ exit_code' = exit_code
            ELSE Propagate
  /\ attempt' = FirstAttempt
  /\ ds_trace' = <<>>
  /\ last_outcome' = NoOutcome
  /\ child_calls' = 0
  /\ child_errors' = 0
  /\ kb_calls' = 0
  /\ kb_errors' = 0
  /\ UNCHANGED <<prov, handler, inputs, startup, listing, knowledge_bases, prompted, response,
                 counts, loopvars, mutated, summary_printed>>

\* Faulty variant: a data source that is through ends the loop over the data sources.
NextDataSource_skipsTheRest ==
  /\ attempt' = FirstAttempt
  /\ exit_code' = exit_code
  /\ pc' = "delete_knowledge_base"
  /\ ds_index' = ds_index

\* delete_data_source returned (True or False; the caller continues either
\* way): the next data source, or the knowledge base itself.
NextDataSource ==
  /\ attempt' = FirstAttempt
  /\ exit_code' = exit_code
  /\ IF ds_index < data_sources
       THEN pc' = "delete_data_source" /\ ds_index' = ds_index + 1
       ELSE pc' = "delete_knowledge_base" /\ ds_index' = ds_index

\* Faulty variant: after a failed data source the others are left alone.
FailedDataSource_abandonsTheRest ==
  /\ attempt' = FirstAttempt
  /\ exit_code' = exit_code
  /\ pc' = "delete_knowledge_base"
  /\ ds_index' = ds_index

\* if not self.delete_data_source(kb_id, ds_id): print("Continuing despite
\* data source deletion failure..."): the loop goes on as after a success.
FailedDataSource == NextDataSource

\* attempt < max_retries - 1
HasAttemptsLeft(a) == a < max_retries - 1

\* if 'vector store' in error_message.lower() and attempt < max_retries - 1
UpdatesPolicy(v, msg, a) == IsVectorStoreError(v, msg) /\ HasAttemptsLeft(a)

\* The event a delete_data_source call leaves in ds_trace.
DeleteEvent(v, r) ==
  CASE r.kind = "ok" -> "delete_ok"
    [] r.kind = "TimeoutError" -> "delete_timeout"
    [] r.kind = "ReadTimeoutError" -> "delete_read_timeout"
    [] r.kind = "ClientError" /\ IsVectorStoreError(v, r.message) -> "delete_vector_store"
    [] OTHER -> "delete_error"

\* One delete_data_source call of the retry loop and what the loop does with
\* its outcome.
DeleteDataSource ==
  /\ pc = "delete_data_source"
  /\ \E r \in Outcomes(version) :
       /\ ds_trace' = (IF attempt = FirstAttempt THEN <<>> ELSE ds_trace)
                        \o <<DeleteEvent(version, r)>>
       /\ child_errors' = IF r.kind = "ok" THEN child_errors ELSE child_errors + 1
       /\ last_outcome' = r
       /\ IF r.kind = "ok"
            THEN NextDataSource
            ELSE IF ~Caught(version, r.kind)
              THEN Propagate /\ UNCHANGED <<attempt, ds_index>>
              ELSE IF r.kind = "TimeoutError"
                THEN IF HasAttemptsLeft(attempt)
                       THEN /\ attempt' = attempt + 1
                            /\ UNCHANGED <<pc, ds_index, exit_code>>
                       ELSE FailedDataSource
                ELSE IF UpdatesPolicy(version, r.message, attempt)
                       THEN /\ pc' = "get_data_source"
                            /\ UNCHANGED <<attempt, ds_index, exit_code>>
                       ELSE FailedDataSource
  /\ child_calls' = child_calls + 1
  /\ mutated' = TRUE
  /\ UNCHANGED <<prov, handler, inputs, startup, listing, knowledge_bases, prompted, response,
                 counts, loopvars, data_sources, kb_calls, kb_errors,
                 summary_printed>>

\* Faulty variant: after the policy update the data source is given up.
RetryDelete_givesUp ==
  /\ pc' = "delete_knowledge_base"
  /\ attempt' = FirstAttempt
  /\ exit_code' = exit_code

\* update_data_source_deletion_policy returned (its result is ignored): the
\* loop sleeps and continues with the next attempt.
RetryDelete ==
  /\ pc' = "delete_data_source"
  /\ attempt' = attempt + 1
  /\ exit_code' = exit_code

\* update_data_source_deletion_policy, first call: get_data_source.  When it
\* raises, update_data_source is not called.
GetDataSource ==
  /\ pc = "get_data_source"
  /\ \E r \in Outcomes(version) :
       /\ last_outcome' = KindOnly(r)
       /\ IF r.kind = "ok"
            THEN pc' = "update_data_source" /\ UNCHANGED <<attempt, exit_code>>
            ELSE IF Caught(version, r.kind)
              THEN RetryDelete
              ELSE Propagate /\ attempt' = attempt
  /\ ds_trace' = Append(ds_trace, "get_data_source")
  /\ UNCHANGED <<prov, handler, inputs, startup, listing, knowledge_bases, prompted, response,
                 counts, loopvars, data_sources, ds_index, child_calls,
                 child_errors, kb_calls, kb_errors, mutated, summary_printed>>

\* update_data_source_deletion_policy, second call: update_data_source with
\* dataDeletionPolicy RETAIN.  Whether it returns or raises, the delete is
\* retried.
UpdateDataSource ==
  /\ pc = "update_data_source"
  /\ \E r \in Outcomes(version) :
       /\ last_outcome' = KindOnly(r)
       /\ IF r.kind = "ok" \/ Caught(version, r.kind)
            THEN RetryDelete
            ELSE Propagate /\ attempt' = attempt
  /\ ds_trace' = Append(ds_trace, "update_data_source")
  /\ mutated' = TRUE
  /\ UNCHANGED <<prov, handler, inputs, startup, listing, knowledge_bases, prompted, response,
                 counts, loopvars, data_sources, ds_index, child_calls,
                 child_errors, kb_calls, kb_errors, summary_printed>>

\* Faulty variant: the knowledge base is retried on the vector store error
\* only, as a data source is.
RetriesParent_vectorStoreOnly(v, msg, a) ==
  IsVectorStoreError(v, msg) /\ HasAttemptsLeft(a)

\* except ClientError (v2: and except TimeoutError): if attempt <
\* max_retries - 1: sleep and go round again.  The message is only printed.
RetriesParent(v, msg, a) == HasAttemptsLeft(a)

\* One delete_knowledge_base call of the retry loop: success returns True,
\* any ClientError or timeout is retried while attempts are left.
DeleteKnowledgeBase ==
  /\ pc = "delete_knowledge_base"
  /\ \E r \in Outcomes(version) :
       /\ kb_errors' = IF r.kind = "ok" THEN kb_errors ELSE kb_errors + 1
       /\ last_outcome' = KindOnly(r)
       /\ IF r.kind = "ok"
            THEN Account(TRUE) /\ attempt' = attempt
            ELSE IF ~Caught(version, r.kind)
              THEN Propagate /\ UNCHANGED <<attempt, counts, loopvars>>
              ELSE IF RetriesParent(version, r.message, attempt)
                THEN /\ attempt' = attempt + 1
                     /\ UNCHANGED <<pc, exit_code, counts, loopvars>>
                ELSE Account(FALSE) /\ attempt' = attempt
  /\ kb_calls' = kb_calls + 1
  /\ mutated' = TRUE
  /\ UNCHANGED <<prov, handler, inputs, startup, listing, knowledge_bases, prompted, response, data_sources,
                 ds_index, ds_trace, child_calls, child_errors, summary_printed>>

\* Faulty variant: the success rate is printed only when something was
\* counted.
SuccessRateFails_never(v, succeeded, failed) == FALSE

\* v2: (success_count/(success_count+failure_count)*100) raises
\* ZeroDivisionError when nothing was counted.  v1 prints no rate.
SuccessRateFails(v, succeeded, failed) == v = "v2" /\ succeeded + failed = 0

\* The summary: the counts are printed; v2 then prints the success rate,
\* success_count/(success_count+failure_count), a ZeroDivisionError when no
\* KB was counted, which main turns into exit status 1.
PrintSummary ==
  /\ pc = "summary"
  /\ summary_printed' = TRUE
  /\ IF SuccessRateFails(version, success_count, failure_count)
       THEN Exit(1)
       ELSE Exit(0)
  /\ UNCHANGED <<prov, handler, inputs, startup, listing, knowledge_bases, prompted, response, counts,
                 loopvars, kbvars, mutated>>

\* ------------------------------------------------------------- kb_test.py
\* No cleaner runs while the provisioning script does.
CleanerOff ==
  /\ version = "v1"
  /\ dry_run = FALSE
  /\ confirm = FALSE
  /\ batch_size = 0
  /\ pc = "off"
  /\ CleanerFresh

ProvInit ==
  /\ CleanerOff
  /\ HandlerOff
  /\ pstep = "ensure_opensearch_policies"
  /\ polls = 0
  /\ elapsed = 0
  /\ agent_attempt = 0
  /\ agent_stage = 0
  /\ agent_seen = "none"
  /\ alias_seen = "none"
  /\ seen = NothingSeen
  /\ ag_created = <<FALSE, FALSE>>
  /\ ag_index = 0
  /\ plog = <<>>

\* An exception no handler catches ends the script.
Raise == pstep' = "raised"

\* Time one status request may take.
CallSeconds == {0, MaxCallSeconds}

\* One more poll of a while-loop that keeps no count of its own.
Polled == polls' = (polls + 1) % PollWrap

\* Straight-line step: the call returns and the script moves on, or the call
\* raises and nothing catches it.
Call(here, name, there) ==
  /\ pstep = here
  /\ \E r \in {"ok", "exception"} :
       IF r = "ok"
         THEN pstep' = there /\ plog' = Append(plog, name)
         ELSE Raise /\ plog' = plog

\* ensure_opensearch_policies: the three policies (a conflict is tolerated).
EnsurePolicies ==
  /\ Call("ensure_opensearch_policies", "policies", "create_collection")
  /\ UNCHANGED <<cleaner, handler, polls, elapsed, agent_attempt, agent_stage, agent_seen, alias_seen, seen,
                 ag_created, ag_index>>

\* create_collection: aoss.create_collection; ConflictException is not an
\* error.
CreateCollection ==
  /\ pstep = "create_collection"
  /\ \E r \in {"ok", "ConflictException", "exception"} :
       /\ seen' = [seen EXCEPT !.created = r]
       /\ CASE r = "ok" -> pstep' = "wait_collection"
                             /\ plog' = Append(plog, "create_collection")
            [] r = "ConflictException" -> pstep' = "wait_collection" /\ plog' = plog
            [] OTHER -> Raise /\ plog' = plog
  /\ UNCHANGED <<cleaner, handler, polls, elapsed, agent_attempt, agent_stage, agent_seen, alias_seen,
                 ag_created, ag_index>>

\* Faulty variant: a collection of the name is enough, whatever its status.
CollectionActive_anyStatus(st) == st # "absent"

\* if col["name"] == name and col["status"] == "ACTIVE"
CollectionActive(st) == st = "ACTIVE"

\* create_collection: while True: list_collections until the collection is
\* listed ACTIVE.  No count, no timeout.
PollCollection ==
  /\ pstep = "wait_collection"
  /\ \E r \in {"ACTIVE", "CREATING", "absent", "exception"} :
       /\ seen' = [seen EXCEPT !.collection = r]
       /\ IF r = "exception"
            THEN Raise /\ polls' = 0
          ELSE IF CollectionActive(r)
            THEN pstep' = "create_vector_index" /\ polls' = 0
            ELSE Polled /\ pstep' = pstep
  /\ UNCHANGED <<cleaner, handler, elapsed, agent_attempt, agent_stage,
                 agent_seen, alias_seen, ag_created, ag_index, plog>>

\* create_vector_index: the collection's ARN is looked up (none: an
\* exception), then the index is PUT; whatever the PUT does is swallowed.
\* create_collection returns and wait_for_index_ready starts its clock.
CreateVectorIndex ==
  /\ pstep = "create_vector_index"
  /\ \E r \in {"200", "exists", "rejected", "request_error", "no_arn"} :
       /\ seen' = [seen EXCEPT !.put = r]
       /\ IF r = "no_arn"
            THEN Raise /\ plog' = plog
            ELSE pstep' = "wait_index" /\ plog' = Append(plog, "create_vector_index")
  /\ elapsed' = 0
  /\ UNCHANGED <<cleaner, handler, polls, agent_attempt, agent_stage, agent_seen, alias_seen, ag_created,
                 ag_index>>

\* wait_for_index_ready: while time.time() - start_time < timeout
IndexTimeLeft(t) == t < index_timeout

\* Faulty variant: any answer with status 200 ends the wait.
IndexListed_any200(r) == r \in {"listed", "not_listed"}

\* if response.status_code == 200 and any(idx.get("index") == index_name
\* for idx in index_info)
IndexListed(r) == r = "listed"

\* wait_for_index_ready, one turn of the loop: the index is listed (return,
\* then main sleeps 30 s), or the loop sleeps `interval`.
PollIndex ==
  /\ pstep = "wait_index"
  /\ IndexTimeLeft(elapsed)
  /\ \E r \in {"listed", "not_listed", "not_200", "exception"}, d \in CallSeconds :
       /\ seen' = [seen EXCEPT !.index = r]
       /\ IF r = "exception"
            THEN Raise /\ elapsed' = 0
          ELSE IF IndexListed(r)
            THEN pstep' = "create_knowledge_base" /\ elapsed' = 0
            ELSE pstep' = pstep /\ elapsed' = elapsed + d + index_interval
  /\ UNCHANGED <<cleaner, handler, polls, agent_attempt, agent_stage,
                 agent_seen, alias_seen, ag_created, ag_index, plog>>

\* wait_for_index_ready: the loop condition fails: raise TimeoutError.
IndexTimeout ==
  /\ pstep = "wait_index"
  /\ ~IndexTimeLeft(elapsed)
  /\ Raise
  /\ elapsed' = 0
  /\ UNCHANGED <<cleaner, handler, polls, agent_attempt, agent_stage, agent_seen, alias_seen, seen, ag_created,
                 ag_index, plog>>

CreateKnowledgeBase ==
  /\ Call("create_knowledge_base", "create_knowledge_base", "wait_kb")
  /\ UNCHANGED <<cleaner, handler, polls, elapsed, agent_attempt, agent_stage, agent_seen, alias_seen, seen,
                 ag_created, ag_index>>

\* Faulty variant: the loop is left on any status but CREATING.
KnowledgeBaseActive_notCreating(st) == st # "CREATING"

\* if status == "ACTIVE": break
KnowledgeBaseActive(st) == st = "ACTIVE"

\* wait_for_kb_active: while True: ACTIVE ends the loop, FAILED raises.  No
\* count, no timeout.
PollKnowledgeBase ==
  /\ pstep = "wait_kb"
  /\ \E r \in {"ACTIVE", "FAILED", "CREATING", "exception"} :
       /\ seen' = [seen EXCEPT !.kb = r]
       /\ IF r = "exception"
            THEN Raise /\ polls' = 0
          ELSE IF KnowledgeBaseActive(r)
            THEN pstep' = "create_data_source" /\ polls' = 0
          ELSE IF r = "FAILED"
            THEN Raise /\ polls' = 0
            ELSE Polled /\ pstep' = pstep
  /\ UNCHANGED <<cleaner, handler, elapsed, agent_attempt, agent_stage,
                 agent_seen, alias_seen, ag_created, ag_index, plog>>

CreateDataSource ==
  /\ Call("create_data_source", "create_data_source", "start_ingestion")
  /\ UNCHANGED <<cleaner, handler, polls, elapsed, agent_attempt, agent_stage, agent_seen, alias_seen, seen,
                 ag_created, ag_index>>

StartIngestion ==
  /\ Call("start_ingestion", "start_ingestion_job", "wait_ingestion")
  /\ UNCHANGED <<cleaner, handler, polls, elapsed, agent_attempt, agent_stage, agent_seen, alias_seen, seen,
                 ag_created, ag_index>>

\* if state in ["COMPLETE", "FAILED"]: break
IngestionEnded(st) == st \in {"COMPLETE", "FAILED"}

\* Faulty variant: a job that ended is taken for a job that succeeded.
IngestionSucceeded_anyEnd(st) == TRUE

\* if state == "COMPLETE": ... else: raise Exception("Ingestion failed.")
IngestionSucceeded(st) == st = "COMPLETE"

\* start_ingestion: while True: until the job is COMPLETE or FAILED; FAILED
\* then raises.  No count, no timeout.
PollIngestion ==
  /\ pstep = "wait_ingestion"
  /\ \E r \in {"COMPLETE", "FAILED", "IN_PROGRESS", "exception"} :
       /\ seen' = [seen EXCEPT !.ingestion = r]
       /\ IF r = "exception"
            THEN Raise /\ polls' = 0
          ELSE IF ~IngestionEnded(r)
            THEN Polled /\ pstep' = pstep
          ELSE IF IngestionSucceeded(r)
            THEN pstep' = "retrieve" /\ polls' = 0
            ELSE Raise /\ polls' = 0
  /\ UNCHANGED <<cleaner, handler, elapsed, agent_attempt, agent_stage,
                 agent_seen, alias_seen, ag_created, ag_index, plog>>

\* start_ingestion: the sample retrieve call; its errors are printed only.
Retrieve ==
  /\ pstep = "retrieve"
  /\ \E r \in {"ok", "exception"} :
       /\ seen' = [seen EXCEPT !.retrieve = r]
       /\ pstep' = "create_agent"
  /\ UNCHANGED <<cleaner, handler, polls, elapsed, agent_attempt, agent_stage,
                 agent_seen, alias_seen, ag_created, ag_index, plog>>

\* create_agent: bedrock.create_agent, then the wait for NOT_PREPARED.
CreateAgent ==
  /\ Call("create_agent", "create_agent", "wait_agent")
  /\ agent_stage' = 1
  /\ agent_attempt' = 0
  /\ agent_seen' = "none"
  /\ UNCHANGED <<cleaner, handler, polls, elapsed, alias_seen, seen, ag_created, ag_index>>

\* Faulty variant: every wait is for NOT_PREPARED, as the first one is.
ExpectedStatus_notPrepared(stage) == "NOT_PREPARED"

\* The status each wait_for_agent_status call waits for.
ExpectedStatus(stage) == IF stage = 1 THEN "NOT_PREPARED" ELSE "PREPARED"

\* Faulty variant: the alias is created without the knowledge base attached.
AfterAgentWait_aliasFirst(stage) ==
  CASE stage = 1 -> "prepare_agent"
    [] stage = 2 -> "create_agent_alias"
    [] stage = 3 -> "create_agent_alias"
    [] OTHER -> "wait_alias"

\* Where each wait_for_agent_status call returns to.
AfterAgentWait(stage) ==
  CASE stage = 1 -> "prepare_agent"
    [] stage = 2 -> "associate_agent_knowledge_base"
    [] stage = 3 -> "create_agent_alias"
    [] OTHER -> "wait_alias"

AgentStatuses ==
  {"CREATING", "NOT_PREPARED", "PREPARING", "PREPARED", "FAILED", "DELETING",
   "DELETED", "UNKNOWN"}

\* What one get_agent call gives: a status ("UNKNOWN" when the reply holds
\* none), or an exception.
AgentReplies == AgentStatuses \cup {"exception"}

\* Faulty variant: the loop runs once more than max_retries.
AgentAttemptsLeft_oneMore(a) == a < agent_max_retries

\* for attempt in range(max_retries)
AgentAttemptsLeft(a) == a + 1 < agent_max_retries

\* Faulty variant: an exception of get_agent leaves the function.
PollPropagates_exception(r) == r = "exception"

\* try: get_agent ... except Exception: nothing a call raises gets out.
PollPropagates(r) == FALSE

\* except Exception as e: current_status = "UNKNOWN"
CurrentStatus(r) == IF r = "exception" THEN "UNKNOWN" ELSE r

\* elif current_status in ["FAILED", "DELETING", "DELETED"]
TerminalStatuses == {"FAILED", "DELETING", "DELETED"}

\* wait_for_agent_status, one turn of the loop: get_agent (an exception
\* counts as UNKNOWN); the expected status returns, a terminal one raises,
\* the last turn raises TimeoutError.
PollAgent ==
  /\ pstep = "wait_agent"
  /\ \E r \in AgentReplies :
       /\ agent_seen' = r
       /\ IF PollPropagates(r)
            THEN Raise /\ UNCHANGED <<agent_attempt, elapsed>>
          ELSE IF CurrentStatus(r) = ExpectedStatus(agent_stage)
            THEN /\ pstep' = AfterAgentWait(agent_stage)
                 /\ agent_attempt' = 0
                 /\ elapsed' = 0
          ELSE IF CurrentStatus(r) \in TerminalStatuses
            THEN Raise /\ UNCHANGED <<agent_attempt, elapsed>>
          ELSE IF AgentAttemptsLeft(agent_attempt)
            THEN /\ agent_attempt' = agent_attempt + 1
                 /\ UNCHANGED <<pstep, elapsed>>
            ELSE Raise /\ UNCHANGED <<agent_attempt, elapsed>>
  /\ UNCHANGED <<cleaner, handler, polls, agent_stage, alias_seen, seen, ag_created,
                 ag_index, plog>>

\* bedrock.prepare_agent: in create_agent (twice) and at the end of
\* enable_code_interpreter; each is followed by a wait for PREPARED.
PrepareAgent ==
  /\ Call("prepare_agent", "prepare_agent", "wait_agent")
  /\ agent_stage' = agent_stage + 1
  /\ agent_attempt' = 0
  /\ agent_seen' = "none"
  /\ UNCHANGED <<cleaner, handler, polls, elapsed, alias_seen, seen, ag_created, ag_index>>

AssociateKnowledgeBase ==
  /\ Call("associate_agent_knowledge_base", "associate_agent_knowledge_base",
          "prepare_agent")
  /\ UNCHANGED <<cleaner, handler, polls, elapsed, agent_attempt, agent_stage, agent_seen, alias_seen, seen,
                 ag_created, ag_index>>

\* create_agent_alias; create_agent returns and enable_code_interpreter
\* starts with the first action group.
CreateAlias ==
  /\ Call("create_agent_alias", "create_agent_alias", "create_agent_action_group")
  /\ ag_index' = 1
  /\ UNCHANGED <<cleaner, handler, polls, elapsed, agent_attempt, agent_stage, agent_seen, alias_seen, seen,
                 ag_created>>

\* The next action group with an id to poll, from index i on (3: none).
NextGroup(created, i) ==
  IF i <= 2 /\ created[i] THEN i
  ELSE IF i + 1 <= 2 /\ created[i + 1] THEN i + 1
  ELSE 3

\* After the action group that was polled: the next one, or prepare_agent.
AfterGroups(created, i) ==
  IF NextGroup(created, i) <= 2 THEN "wait_action_group" ELSE "prepare_agent"

\* enable_code_interpreter: create_agent_action_group for UserInput, then
\* for CodeInterpreter; ConflictException gives no id, another ClientError
\* is raised again.
CreateActionGroup ==
  /\ pstep = "create_agent_action_group"
  /\ \E r \in {"ok", "ConflictException", "exception"} :
       IF r = "exception"
         THEN Raise /\ UNCHANGED <<ag_created, ag_index, plog>>
         ELSE LET created == [ag_created EXCEPT ![ag_index] = (r = "ok")] IN
              /\ ag_created' = created
              /\ plog' = IF r = "ok" THEN Append(plog, "create_agent_action_group")
                                      ELSE plog
              /\ IF ag_index < 2
                   THEN pstep' = pstep /\ ag_index' = ag_index + 1
                   ELSE /\ pstep' = AfterGroups(created, 1)
                        /\ ag_index' = NextGroup(created, 1)
  /\ UNCHANGED <<cleaner, handler, polls, elapsed, agent_attempt, agent_stage, agent_seen, alias_seen, seen>>

\* enable_code_interpreter: while status != "ENABLED": get_agent_action_group.
\* No count, no timeout.
PollActionGroup ==
  /\ pstep = "wait_action_group"
  /\ \E r \in {"ENABLED", "DISABLED", "exception"} :
       CASE r = "ENABLED" -> /\ pstep' = AfterGroups(ag_created, ag_index + 1)
                             /\ ag_index' = NextGroup(ag_created, ag_index + 1)
                             /\ polls' = 0
         [] r = "exception" -> Raise /\ polls' = 0 /\ ag_index' = ag_index
         [] OTHER -> Polled /\ UNCHANGED <<pstep, ag_index>>
  /\ UNCHANGED <<cleaner, handler, elapsed, agent_attempt, agent_stage, agent_seen, alias_seen, seen, ag_created,
                 plog>>

\* elif time.time() - start_time > timeout
AliasTimedOut(t) == t > alias_timeout

\* Faulty variant: the loop is left on any status but CREATING.
AliasReady_notCreating(st) == st # "CREATING"

\* if status in ["READY", "PREPARED"]: break
AliasReady(st) == st \in {"READY", "PREPARED"}

\* wait_for_alias_ready, one turn of the loop: READY or PREPARED ends it,
\* FAILED raises, past the timeout TimeoutError is raised, else sleep 5 s.
\* An exception of get_agent_alias leaves the function.
PollAlias ==
  /\ pstep = "wait_alias"
  /\ \E r \in {"READY", "PREPARED", "FAILED", "CREATING", "exception"},
        d \in CallSeconds :
       /\ alias_seen' = r
       /\ IF r = "exception"
            THEN Raise /\ elapsed' = 0
          ELSE IF AliasReady(r)
            THEN pstep' = "invoke_agent" /\ elapsed' = 0
          ELSE IF r = "FAILED"
            THEN Raise /\ elapsed' = 0
          ELSE IF AliasTimedOut(elapsed + d)
            THEN Raise /\ elapsed' = 0
            ELSE pstep' = pstep /\ elapsed' = elapsed + d + alias_interval
  /\ UNCHANGED <<cleaner, handler, polls, agent_attempt, agent_stage, agent_seen, seen,
                 ag_created, ag_index, plog>>

\* invoke_agent: every exception is caught inside; the script ends.
\* What runtime.invoke_agent and the reading of its answer can do: the call
\* raises (a stream error or something else), or it returns a response with
\* "completion" (read to its end, or the stream raises while it is read),
\* with "completionResponse", or with neither.
InvokeOutcomes ==
  {"call_EventStreamError", "call_exception", "completion",
   "completion_EventStreamError", "completion_exception",
   "completionResponse", "unexpected"}

\* The outcomes in which an exception is raised inside the try block.
InvokeRaises ==
  {"call_EventStreamError", "call_exception", "completion_EventStreamError",
   "completion_exception"}

\* The texts an agent may answer with, stripped; a stream without chunks
\* gives the empty text.
Texts == {"", "answer"}

\* Faulty variant: only the stream errors are caught.
InvokeCaught_streamErrorsOnly(how) ==
  how \in {"call_EventStreamError", "completion_EventStreamError"}

\* except botocore.exceptions.EventStreamError / except Exception
InvokeCaught(how) == how \in InvokeRaises

\* What invoke_agent returns: the text of the answer, or "" from the two
\* except clauses and for a response of neither shape.
Returned(how, text) ==
  IF how \in {"completion", "completionResponse"} THEN text ELSE ""

\* invoke_agent, the last call of the script.
InvokeAgent ==
  /\ pstep = "invoke_agent"
  /\ \E how \in InvokeOutcomes, text \in Texts :
       IF how \in InvokeRaises /\ ~InvokeCaught(how)
         THEN /\ Raise
              /\ seen' = [seen EXCEPT !.invoke = how]
         ELSE /\ pstep' = "done"
              /\ seen' = [seen EXCEPT !.invoke = how,
                                       !.answer = Returned(how, text)]
  /\ plog' = Append(plog, "invoke_agent")
  /\ UNCHANGED <<cleaner, handler, polls, elapsed, agent_attempt, agent_stage, agent_seen, alias_seen,
                 ag_created, ag_index>>

ProvNext ==
  \/ EnsurePolicies
  \/ CreateCollection
  \/ PollCollection
  \/ CreateVectorIndex
  \/ PollIndex
  \/ IndexTimeout
  \/ CreateKnowledgeBase
  \/ PollKnowledgeBase
  \/ CreateDataSource
  \/ StartIngestion
  \/ PollIngestion
  \/ Retrieve
  \/ CreateAgent
  \/ PollAgent
  \/ PrepareAgent
  \/ AssociateKnowledgeBase
  \/ CreateAlias
  \/ CreateActionGroup
  \/ PollActionGroup
  \/ PollAlias
  \/ InvokeAgent

ProvSpec == ProvInit /\ [][ProvNext]_vars

\* Every request returns or raises and every sleep ends: the script always
\* takes its next step.  The provider is not obliged to change a status.
ProvFairSpec == ProvSpec /\ WF_vars(ProvNext)

Next ==
  \/ Construct
  \/ ListKnowledgeBases
  \/ Prompt
  \/ StartDeletion
  \/ DryRunKnowledgeBase
  \/ ListDataSources
  \/ DeleteDataSource
  \/ GetDataSource
  \/ UpdateDataSource
  \/ DeleteKnowledgeBase
  \/ PrintSummary

Spec == Init /\ [][Next]_vars

\* The script is one thread: a remote call returns or raises, a sleep ends,
\* and the next statement runs.
FairSpec == Spec /\ WF_vars(Next)

\* main of v2 calls delete_all_knowledge_bases inside try ... except
\* KeyboardInterrupt: sys.exit(1); the constructor call stands before the
\* try.  main of v1 has no try at all.
HandlesInterrupt(v, at) == v = "v2" /\ at # "main"

\* How the interpreter ends on a KeyboardInterrupt nothing catches: with
\* status 1 after the traceback, or (CPython 3.8 and later) killed by SIGINT,
\* which the caller sees as 130.
UncaughtInterruptStatuses == {1, 130}

\* The user presses Ctrl-C while the script runs.
Interrupt ==
  /\ pc \notin {"done", "interrupted", "off"}
  /\ pc' = "interrupted"
  /\ \E code \in UncaughtInterruptStatuses :
       exit_code' = IF HandlesInterrupt(version, pc) THEN 1 ELSE code
  /\ UNCHANGED <<prov, handler, inputs, startup, listing, knowledge_bases, prompted, response, counts,
                 loopvars, kbvars, mutated, summary_printed>>

InterruptNext == Next \/ Interrupt

\* The runs of a cleaner that the user may interrupt.
InterruptSpec == Init /\ [][InterruptNext]_vars

\* ------------------------------------------- TimeoutHandler, step by step
\* The cleaner's actions above take a guarded call as one step.  Here the
\* with-block is opened up: entering arms the alarm, the call returns or
\* raises or the alarm goes off, __exit__ runs, and the script sleeps
\* between blocks.  The blocks follow one another in any order, which covers
\* the order v2 runs them in (no block is entered inside another).

\* TimeoutHandler(30), TimeoutHandler(45), TimeoutHandler(60)
BlockTimeouts == {30, 45, 60}

\* time.sleep(...) outside the blocks: the pacing pauses (2, 10), the retry
\* sleeps (3, 5, 15) and the wait after the data sources (8).
PauseSeconds == {2, 3, 5, 8, 10, 15}

\* What a guarded call does when the alarm does not go off first.
CallEndings == {"ok", "ClientError", "ReadTimeoutError"}

HandlerInit ==
  /\ ProvOff
  /\ version = "v2"
  /\ dry_run = FALSE
  /\ confirm = TRUE
  /\ batch_size = 1
  /\ pc = "off"
  /\ CleanerFresh
  /\ alarm = 0
  /\ hpc = "outside"
  /\ timeout_seconds = 0
  /\ exc = "none"
  /\ hlog = <<>>

Logged(e) == hlog' = Append(hlog, e)

\* __enter__: signal.alarm(self.timeout_seconds)
Enter ==
  /\ hpc = "outside"
  /\ Len(hlog) < MaxHandlerEvents
  /\ \E t \in BlockTimeouts :
       /\ timeout_seconds' = t
       /\ alarm' = t
  /\ hpc' = "guarded"
  /\ exc' = "none"
  /\ Logged("enter")
  /\ UNCHANGED <<cleaner, prov>>

\* The guarded call returns or raises after d seconds, before the alarm.
CallEnds ==
  /\ hpc = "guarded"
  /\ \E r \in CallEndings, d \in {0, alarm - 1} :
       /\ alarm' = alarm - d
       /\ exc' = r
       /\ Logged(r)
  /\ hpc' = "leaving"
  /\ UNCHANGED <<cleaner, prov, timeout_seconds>>

\* _timeout_handler: the alarm goes off while the block is still open (the
\* call is in flight, or has ended and __exit__ has not yet run) and raises
\* TimeoutError there.  An alarm goes off once.
TimeoutFires ==
  /\ hpc \in {"guarded", "leaving"}
  /\ alarm > 0
  /\ alarm' = 0
  /\ exc' = "TimeoutError"
  /\ hpc' = "leaving"
  /\ Logged("TimeoutError")
  /\ UNCHANGED <<cleaner, prov, timeout_seconds>>

\* Faulty variant: the alarm is cancelled after the call, on the way that
\* an exception does not take.
AlarmAtExit_returnOnly(remaining, how) == IF how = "ok" THEN 0 ELSE remaining

\* __exit__(self, exc_type, exc_val, exc_tb): signal.alarm(0), whatever
\* exc_type is.
AlarmAtExit(remaining, how) == 0

\* The with-block is left: __exit__ runs; it returns None, so an exception
\* goes on to the except clauses of the caller.
ExitBlock ==
  /\ hpc = "leaving"
  /\ alarm' = AlarmAtExit(alarm, exc)
  /\ hpc' = "outside"
  /\ Logged("exit")
  /\ UNCHANGED <<cleaner, prov, timeout_seconds, exc>>

\* time.sleep(s) between two blocks.  An alarm still pending and due within
\* s seconds goes off during the sleep.
Sleep ==
  /\ hpc = "outside"
  /\ Len(hlog) < MaxHandlerEvents
  /\ \E s \in PauseSeconds :
       IF alarm > 0 /\ alarm <= s
         THEN alarm' = 0 /\ hpc' = "alarm_in_sleep"
         ELSE alarm' = (IF alarm > 0 THEN alarm - s ELSE 0) /\ hpc' = hpc
  /\ Logged("sleep")
  /\ UNCHANGED <<cleaner, prov, timeout_seconds, exc>>

HandlerNext ==
  \/ Enter
  \/ CallEnds
  \/ TimeoutFires
  \/ ExitBlock
  \/ Sleep

HandlerSpec == HandlerInit /\ [][HandlerNext]_vars

\* ------------------------------------------------------------------ claims
IsDelete(e) ==
  e \in {"delete_ok", "delete_vector_store", "delete_error", "delete_timeout",
         "delete_read_timeout"}

\* delete_data_source calls among the first p events of a trace
DeletesUpTo(tr, p) == Cardinality({q \in 1 .. p : IsDelete(tr[q])})

EventsOf(tr, e) == Cardinality({q \in 1 .. Len(tr) : tr[q] = e})

\* delete_data_source is through with the current data source
DataSourceSettled ==
  /\ ds_trace # <<>>
  /\ LET last == ds_trace[Len(ds_trace)] IN
       \/ last \in {"delete_ok", "delete_error"}
       \/ /\ last \in {"delete_vector_store", "delete_timeout"}
          /\ DeletesUpTo(ds_trace, Len(ds_trace)) = max_retries

CeilDiv(t, b) == (t + b - 1) \div b

\* C1: in dry-run mode (v1 and v2, any number of enumerated knowledge bases,
\* any provider answers) no update_data_source, delete_data_source or
\* delete_knowledge_base call is ever issued.
C1_DryRunIssuesNoMutatingCall ==
  dry_run => /\ ~mutated
             /\ child_calls = 0
             /\ kb_calls = 0
             /\ ds_trace = <<>>

\* A dry run over several knowledge bases ran to its summary.
C1_Witness ==
  /\ dry_run
  /\ summary_printed
  /\ Total >= 2
  /\ success_count = Total

\* C2: without --dry-run and --confirm, an answer to the prompt other than
\* the exact literal DELETE ends the run with no mutating call issued and no
\* knowledge base processed.
C2_DeclinedPromptAborts ==
  /\ prompted => ~dry_run /\ ~confirm
  /\ (prompted /\ response # "DELETE") =>
       /\ ~mutated
       /\ pc = "done"
       /\ kb_index = 0
       /\ ~summary_printed

\* The prompt was answered with the lower-case word.
C2_Witness ==
  /\ prompted
  /\ response = "delete"
  /\ Total >= 2
  /\ pc = "done"

C4_VectorStoreErrorUpdatesThenRetries ==
  LET tr == ds_trace
      n == Len(ds_trace) IN
  /\ \A p \in 1 .. n :
       /\ (tr[p] = "delete_vector_store" /\ DeletesUpTo(tr, p) < max_retries) =>
            /\ p < n => tr[p + 1] = "get_data_source"
            /\ p = n => pc = "get_data_source"
       /\ (tr[p] = "delete_vector_store" /\ DeletesUpTo(tr, p) >= max_retries) =>
            /\ p = n
            /\ pc # "get_data_source"
       /\ tr[p] = "get_data_source" =>
            /\ p > 1 /\ tr[p - 1] = "delete_vector_store"
            /\ p < n => tr[p + 1] = "update_data_source" \/ IsDelete(tr[p + 1])
            /\ p = n => pc \in {"update_data_source", "delete_data_source"}
       /\ tr[p] = "update_data_source" =>
            /\ p > 1 /\ tr[p - 1] = "get_data_source"
            /\ p < n => IsDelete(tr[p + 1])
            /\ p = n => pc = "delete_data_source"
       /\ (IsDelete(tr[p]) /\ p < n /\ IsDelete(tr[p + 1])) => tr[p] = "delete_timeout"
       /\ tr[p] \in {"delete_ok", "delete_error"} => p = n
  /\ EventsOf(tr, "get_data_source") <= max_retries - 1
  /\ EventsOf(tr, "update_data_source") <= EventsOf(tr, "get_data_source")
  /\ DeletesUpTo(tr, n) <= max_retries

\* Two vector-store errors were each answered by an update and a retry, and
\* the third ended the attempts.
C4_Witness ==
  ds_trace = <<"delete_vector_store", "get_data_source", "update_data_source",
               "delete_vector_store", "get_data_source", "update_data_source",
               "delete_vector_store">>

\* C5: when the summary is printed, success_count + failure_count is the
\* number of enumerated knowledge bases (v1, and v2 for every batch_size).
C5_SummaryCountsEqualTotal ==
  (pc = "summary" \/ summary_printed) => success_count + failure_count = Total

\* C6: v2 with batch size B >= 1 and T enumerated knowledge bases works
\* through ceil(T/B) batches and takes the 10-second pause ceil(T/B) - 1
\* times: after every batch but the last.
C6_BatchesAndPauses ==
  (version = "v2" /\ batch_size >= 1 /\ kb_index >= 1) =>
    /\ batches = (batch_start \div batch_size) + 1
    /\ batch_sleeps = batches - 1
    /\ kb_index > batch_start
    /\ kb_index <= batch_start + batch_size
    /\ (pc = "summary" \/ summary_printed) =>
         /\ batches = CeilDiv(Total, batch_size)
         /\ batch_sleeps = CeilDiv(Total, batch_size) - 1

\* Three knowledge bases went through two batches of two and one.
C6_Witness ==
  /\ version = "v2"
  /\ summary_printed
  /\ Total = 3
  /\ batch_size = 2
  /\ batches = 2
  /\ batch_sleeps = 1

\* The current KB is being deleted, or was the last thing worked on.
Deleting ==
  pc \in {"delete_data_source", "get_data_source", "update_data_source",
          "delete_knowledge_base"}

\* C7: a ClientError or a timeout while a knowledge base or one of its data
\* sources is deleted never ends the run: the run goes on to the next
\* knowledge base and reaches the summary with every enumerated one
\* processed; a knowledge base is counted as failed only when its own
\* delete_knowledge_base calls all failed.
C7_ErrorsStayWithTheirKnowledgeBase ==
  /\ [](/\ (kb_index >= 1 /\ pc = "done") =>
             summary_printed /\ kb_index = Total /\ exit_code = 0
        /\ (kb_index >= 1 /\ Deleting) =>
             success_count + failure_count = kb_index - 1
        /\ (kb_index >= 1 /\ pc = "process") =>
             success_count + failure_count = kb_index - 1
        /\ pc = "summary" => success_count + failure_count = kb_index)
  /\ [][/\ failure_count' >= failure_count
        /\ success_count' >= success_count
        /\ (failure_count' > failure_count) =>
             /\ failure_count' = failure_count + 1
             /\ success_count' = success_count
             /\ kb_errors' = max_retries
             /\ kb_calls' = max_retries
        /\ (success_count' > success_count /\ ~dry_run) =>
             /\ success_count' = success_count + 1
             /\ failure_count' = failure_count
             /\ kb_errors' = kb_calls' - 1
        /\ (Deleting /\ (child_errors' > child_errors \/ kb_errors' > kb_errors)) =>
             pc' \in {"delete_data_source", "get_data_source",
                      "delete_knowledge_base", "process", "summary"}]_vars

\* A knowledge base failed after errors, and a later one was still deleted
\* without any error.
C7_Witness ==
  /\ summary_printed
  /\ Total = 3
  /\ failure_count >= 1
  /\ success_count >= 1
  /\ kb_errors = 0
  /\ child_errors = 0
  /\ kb_calls = 1

\* C8: delete_knowledge_base is not called for a knowledge base before
\* delete_data_source has been called, and has returned or run out of
\* attempts, for every data source listed for it.
C8_ChildrenBeforeParent ==
  (pc = "delete_knowledge_base" \/ kb_calls >= 1) =>
    /\ ds_index = data_sources
    /\ data_sources > 0 => DataSourceSettled
    /\ data_sources = 0 => ds_trace = <<>>
    /\ child_calls >= data_sources

\* The parent is being deleted after two data sources, one of which failed.
C8_Witness ==
  /\ kb_calls >= 1
  /\ data_sources = 2
  /\ child_errors >= 1
  /\ pc = "delete_knowledge_base"

\* C10: a deletion run ends: no data source gets more than max_retries
\* delete_data_source calls, no knowledge base more than max_retries
\* delete_knowledge_base calls, and once the first knowledge base is taken
\* up the summary is reached, whatever the provider answers.
C10_DeletionRunTerminates ==
  /\ [](/\ DeletesUpTo(ds_trace, Len(ds_trace)) <= max_retries
        /\ kb_calls <= max_retries
        /\ attempt < max_retries)
  /\ (kb_index >= 1) ~> (summary_printed /\ pc = "done")

\* Every attempt on two data sources and on their knowledge base failed,
\* and the summary was printed.
C10_Witness ==
  /\ summary_printed
  /\ data_sources = 2
  /\ child_calls = data_sources * max_retries
  /\ kb_errors = max_retries
  /\ failure_count >= 1

\* C9: every status-polling loop of the provisioning script ends, even if
\* the provider never reports the status it waits for.
C9_EveryPollingLoopEnds ==
  /\ (pstep = "wait_collection") ~> (pstep # "wait_collection")
  /\ (pstep = "wait_index") ~> (pstep # "wait_index")
  /\ (pstep = "wait_kb") ~> (pstep # "wait_kb")
  /\ (pstep = "wait_ingestion") ~> (pstep # "wait_ingestion")
  /\ (pstep = "wait_agent") ~> (pstep # "wait_agent")
  /\ (pstep = "wait_action_group") ~> (pstep # "wait_action_group")
  /\ (pstep = "wait_alias") ~> (pstep # "wait_alias")

\* The steps of the provisioning sequence, by the call that performs each.
StepOrder ==
  <<"create_collection", "create_vector_index", "create_knowledge_base",
    "create_data_source", "start_ingestion_job", "create_agent",
    "associate_agent_knowledge_base", "create_agent_alias", "invoke_agent">>

IsStep(name) == \E k \in 1 .. Len(StepOrder) : StepOrder[k] = name

Rank(name) == CHOOSE k \in 1 .. Len(StepOrder) : StepOrder[k] = name

\* C11: the provisioning script performs create collection, create index,
\* create knowledge base, attach data source, run ingestion, create agent,
\* attach knowledge base, create alias, invoke in this order, each after the
\* previous one has returned (an already existing collection stands for its
\* creation), and once a step has raised no later step is performed.
C11_StepsInOrder ==
  /\ [](\A i, j \in 1 .. Len(plog) :
          (i < j /\ IsStep(plog[i]) /\ IsStep(plog[j])) =>
            Rank(plog[i]) < Rank(plog[j]))
  /\ [](\A i \in 1 .. Len(plog) :
          IsStep(plog[i]) =>
            \A k \in 2 .. (Rank(plog[i]) - 1) :
              \E h \in 1 .. (i - 1) : plog[h] = StepOrder[k])
  /\ [][pstep = "raised" => (pstep' = "raised" /\ plog' = plog)]_vars
  /\ [][pstep' = "raised" => plog' = plog]_vars

\* The whole sequence ran, the collection included.
C11_Witness ==
  /\ pstep = "done"
  /\ \A k \in 1 .. Len(StepOrder) : \E h \in 1 .. Len(plog) : plog[h] = StepOrder[k]

\* C12: a cleaner exits with status 0 on completion (empty enumeration,
\* declined prompt, summary with every knowledge base counted, failures
\* included), with status 0 only then, and with status 1 when the user
\* interrupts the batch.
C12_ExitStatus ==
  /\ (pc \notin {"done", "interrupted"}) <=> (exit_code = -1)
  /\ pc = "done" => exit_code \in {0, 1}
  /\ (pc = "done" /\ prompted /\ Cancelled(response)) => exit_code = 0
  /\ (pc = "done" /\ summary_printed /\ success_count + failure_count = Total) =>
       exit_code = 0
  /\ (pc = "done" /\ exit_code = 0) =>
       \/ knowledge_bases = <<>>
       \/ prompted /\ Cancelled(response)
       \/ summary_printed
  /\ (pc = "interrupted" /\ kb_index >= 1) => exit_code = 1

\* The second of three deletions was interrupted.
C12_Witness ==
  /\ pc = "interrupted"
  /\ kb_index = 2
  /\ success_count + failure_count = 1
  /\ exit_code = 1

\* C13: when building the cleaner fails (missing credentials; in v2 also a
\* ClientError of the probe call) the process has ended with status 1, no
\* knowledge base was enumerated, nothing was prompted and no mutating call
\* was issued; anything later happens only after a successful start.
C13_StartupFailureIsFatal ==
  /\ startup \in {"NoCredentialsError", "ClientError"} =>
       /\ pc = "done"
       /\ exit_code = 1
       /\ knowledge_bases = <<>>
       /\ kb_index = 0
       /\ ~prompted
       /\ ~mutated
       /\ ~summary_printed
  /\ startup = "ClientError" => version = "v2"
  /\ pc \notin {"main", "done", "interrupted"} => startup = "ok"

\* The probe call of v2 was refused.
C13_Witness ==
  /\ version = "v2"
  /\ startup = "ClientError"
  /\ pc = "done"

\* Knowledge bases whose deletion has begun and has not yet returned.
InProgress == kb_index - (success_count + failure_count)

C15_BatchProcessedSimultaneously ==
  (version = "v2" /\ batch_size >= 2 /\ Deleting /\ kb_index - batch_start >= 2) =>
    InProgress >= 2

\* C16: with --confirm, without --dry-run and with at least one knowledge
\* base enumerated, the prompt is not read and, when the run has ended, the
\* deletion of every enumerated knowledge base has been attempted.
C16_ConfirmDeletesAll ==
  (confirm /\ ~dry_run /\ Total >= 1) =>
    /\ ~prompted
    /\ pc # "prompt"
    /\ pc = "done" => kb_index = Total

\* A delete_knowledge_base call was just made.
ParentCalled == kb_calls' = kb_calls + 1

\* A delete_data_source call was just made.
ChildCalled == child_calls' = child_calls + 1

\* The phrase "vector store", in any case, stands in the message.
MentionsVectorStore(msg) ==
  \E p \in 1 .. (Len(msg) - 1) :
    /\ msg[p] \in {"vector", "Vector", "VECTOR"}
    /\ msg[p + 1] \in {"store", "Store"}

\* The call just made raised an error the code handles.
HandledError == last_outcome'.kind \in {"ClientError", "TimeoutError"}

\* C17: outside dry-run a knowledge base is counted as a success exactly
\* when a delete_knowledge_base call for it returned without error, and as a
\* failure only when all its delete_knowledge_base calls failed; what became
\* of its data sources plays no part.
C17_SuccessIsParentDeletion ==
  /\ [][(~dry_run /\ success_count' > success_count) =>
          (ParentCalled /\ last_outcome'.kind = "ok")]_vars
  /\ [][(ParentCalled /\ last_outcome'.kind = "ok") =>
          (success_count' = success_count + 1 /\ failure_count' = failure_count)]_vars
  /\ [][failure_count' > failure_count =>
          (ParentCalled /\ last_outcome'.kind # "ok" /\ kb_errors' = kb_calls'
             /\ success_count' = success_count)]_vars

\* Both data sources of the only knowledge base failed to delete, the
\* knowledge base itself was deleted at once and is counted as a success.
C17_Witness ==
  /\ pc = "summary"
  /\ Total = 1
  /\ data_sources = 2
  /\ child_errors = child_calls
  /\ kb_errors = 0
  /\ success_count = 1
  /\ failure_count = 0

\* C18: when delete_data_source returns failure (a ClientError that is not
\* retried, or an error on the last attempt), the loop goes on with the
\* next data source or, after the last one, with delete_knowledge_base.
C18_FailedChildDoesNotStopParent ==
  [][(pc = "delete_data_source" /\ ChildCalled /\ HandledError
        /\ (\/ attempt = max_retries - 1
            \/ /\ last_outcome'.kind = "ClientError"
               /\ ~MentionsVectorStore(last_outcome'.message))) =>
       /\ ds_index < data_sources =>
            (pc' = "delete_data_source" /\ ds_index' = ds_index + 1
               /\ attempt' = FirstAttempt)
       /\ ds_index = data_sources => pc' = "delete_knowledge_base"]_vars

\* The first of two data sources failed in one call, the second was deleted
\* and so was the knowledge base.
C18_Witness ==
  /\ data_sources = 2
  /\ child_calls = 2
  /\ child_errors = 1
  /\ ds_trace = <<"delete_ok">>
  /\ kb_calls = 1
  /\ kb_errors = 0

\* C19: a ClientError of delete_data_source whose message does not hold
\* "vector store" in any case ends that data source at once: no policy
\* update follows, no further delete_data_source call is made for it, and it
\* has failed.
C19_OtherErrorEndsDataSource ==
  [][(pc = "delete_data_source" /\ ChildCalled
        /\ last_outcome'.kind = "ClientError"
        /\ ~MentionsVectorStore(last_outcome'.message)) =>
       /\ pc' \in {"delete_data_source", "delete_knowledge_base"}
       /\ pc' = "delete_data_source" => ds_index' = ds_index + 1
       /\ attempt' = FirstAttempt
       /\ child_errors' = child_errors + 1
       /\ ds_trace'[Len(ds_trace')] = "delete_error"]_vars

\* A message with the two words run together was not taken for the vector
\* store error.
C19_Witness ==
  /\ ds_trace = <<"delete_error">>
  /\ last_outcome.message = <<"vectorstore", "is", "busy">>

\* C20: when get_data_source or update_data_source of the policy update
\* raises ClientError (or, in v2, times out), delete_data_source is called
\* again for the same data source; after a failed get_data_source no
\* update_data_source call comes before that retry.
C20_FailedUpdateStillRetries ==
  [][(pc \in {"get_data_source", "update_data_source"} /\ ds_trace' # ds_trace
        /\ HandledError) =>
       /\ pc' = "delete_data_source"
       /\ attempt' = attempt + 1
       /\ ds_index' = ds_index]_vars

\* get_data_source failed, no update was sent, and the retry deleted the
\* data source.
C20_Witness ==
  ds_trace = <<"delete_vector_store", "get_data_source", "delete_ok">>

\* C21: a delete_knowledge_base call that raises ClientError, whatever its
\* message, is followed by another call while fewer than max_retries calls
\* were made; once a call has returned no further delete call is issued for
\* that knowledge base; the knowledge base is reported failed only with its
\* max_retries-th failed call, all max_retries calls having failed.
C21_ParentRetriedOnAnyError ==
  /\ [](kb_calls > kb_errors =>
         (kb_calls = kb_errors + 1 /\ pc \in {"process", "summary", "done"}))
  /\ [](kb_calls <= max_retries)
  /\ [][(ParentCalled /\ last_outcome'.kind = "ClientError"
           /\ kb_calls' < max_retries) =>
          /\ pc' = "delete_knowledge_base"
          /\ attempt' = attempt + 1
          /\ kb_index' = kb_index
          /\ failure_count' = failure_count
          /\ success_count' = success_count]_vars
  /\ [][(ParentCalled /\ last_outcome'.kind = "ok") =>
          /\ pc' \in {"process", "summary"}
          /\ pc' = "process" => kb_index' = kb_index + 1]_vars
  /\ [][(kb_calls' > kb_calls \/ child_calls' > child_calls) =>
          kb_calls = kb_errors]_vars
  /\ [][failure_count' > failure_count =>
          /\ ParentCalled
          /\ kb_calls' = max_retries
          /\ kb_errors' = max_retries]_vars

\* Two calls failed, the third deleted the knowledge base, which is counted
\* as a success.
C21_Witness ==
  /\ kb_calls = max_retries
  /\ kb_errors = max_retries - 1
  /\ success_count = 1
  /\ failure_count = 0
  /\ pc = "summary"

\* The enumeration gave the caller nothing: it returned no summary, or it
\* raised what list_knowledge_bases is said to catch (ClientError; in v2 also
\* a timeout or any other exception).
EnumerationEmptyOrFailed ==
  \/ listing.outcome = "ok" /\ listing.fetched = 0
  \/ listing.outcome = "ClientError"
  \/ version = "v2" /\ listing.outcome \in {"TimeoutError", "ReadTimeoutError"}

\* C22: when the enumeration of knowledge bases returns nothing or fails
\* (ClientError; in v2 also a timeout or any exception during pagination),
\* the summaries already fetched are dropped and delete_all_knowledge_bases
\* has returned: status 0, nothing prompted, no knowledge base taken up, no
\* mutating call issued.
C22_EmptyOrFailedEnumerationEndsRun ==
  EnumerationEmptyOrFailed =>
    /\ knowledge_bases = <<>>
    /\ pc = "done"
    /\ exit_code = 0
    /\ ~prompted
    /\ ~mutated
    /\ kb_index = 0
    /\ child_calls = 0
    /\ kb_calls = 0
    /\ ~summary_printed

\* In v2 the pagination broke on a read timeout after two summaries were
\* fetched.
C22_Witness ==
  /\ version = "v2"
  /\ listing = [outcome |-> "ReadTimeoutError", fetched |-> 2]
  /\ pc = "done"

\* C23: in dry-run mode the prompt is never read, list_data_sources is never
\* called (no knowledge base gets as far as its data sources), and the
\* summary reports every enumerated knowledge base as a success:
\* success_count is the number enumerated and failure_count is 0.
C23_DryRunCountsAllAsSuccess ==
  dry_run =>
    /\ ~prompted
    /\ pc # "prompt"
    /\ ~Deleting
    /\ last_outcome = NoOutcome
    /\ failure_count = 0
    /\ (pc = "summary" \/ summary_printed) => success_count = Total

\* C24: the knowledge bases are taken up one by one in enumeration order,
\* none twice and none skipped, and when the summary is reached every
\* enumerated one has been processed; in v2 with batch_size >= 1 the batches
\* are the consecutive slices of batch_size elements (the last one may be
\* shorter): a batch starts where the previous one ended and only when the
\* previous one is through.
C24_EachProcessedOnceInOrder ==
  /\ [](kb_index \in 0 .. Total)
  /\ []((pc = "summary" \/ summary_printed) =>
         (kb_index = Total /\ success_count + failure_count = Total))
  /\ [][kb_index' \in {kb_index, kb_index + 1}]_vars
  /\ [][kb_index' = kb_index + 1 =>
          success_count' + failure_count' = kb_index]_vars
  /\ []((version = "v2" /\ batch_size >= 1 /\ kb_index >= 1) =>
         /\ batch_start % batch_size = 0
         /\ batch_start < Total
         /\ kb_index > batch_start
         /\ kb_index <= BatchEnd(batch_start, batch_size, Total))
  /\ [][(version = "v2" /\ batch_size >= 1 /\ batch_start' # batch_start) =>
          /\ batch_start' = batch_start + batch_size
          /\ kb_index = batch_start + batch_size
          /\ kb_index' = batch_start' + 1]_vars

\* Pacing pauses taken so far (v2: time.sleep(2) and time.sleep(10) of the
\* two loops).
Pauses == kb_sleeps + batch_sleeps

\* C25: in v2, between a knowledge base and the next one processed exactly
\* one pacing pause is taken: the 2-second one when the next is in the same
\* batch, the 10-second one when it opens the next batch, never both; no
\* pause is taken before the first or after the last knowledge base.
C25_OnePauseBetweenKnowledgeBases ==
  /\ []((version = "v2" /\ kb_index >= 1) => Pauses = kb_index - 1)
  /\ []((version = "v2" /\ kb_index = 0) => Pauses = 0)
  /\ [][(version = "v2" /\ kb_index >= 1 /\ kb_index' = kb_index + 1) =>
          /\ batch_start' = batch_start =>
               (kb_sleeps' = kb_sleeps + 1 /\ batch_sleeps' = batch_sleeps)
          /\ batch_start' # batch_start =>
               (batch_sleeps' = batch_sleeps + 1 /\ kb_sleeps' = kb_sleeps)]_vars
  /\ [][(version = "v2" /\ kb_index' = kb_index) =>
          (kb_sleeps' = kb_sleeps /\ batch_sleeps' = batch_sleeps)]_vars

\* Three knowledge bases in batches of two: one 2-second pause, then one
\* 10-second pause, none after the third.
C25_Witness ==
  /\ version = "v2"
  /\ batch_size = 2
  /\ Total = 3
  /\ summary_printed
  /\ kb_sleeps = 1
  /\ batch_sleeps = 1

\* v2 was started with a batch size of zero or less and enumerated at least
\* one knowledge base.
NoBatchPossible == version = "v2" /\ batch_size <= 0 /\ Total >= 1

\* C26 as stated: in v2 with batch_size <= 0 and at least one knowledge base
\* enumerated, no mutating call is issued, no summary with success + failure
\* equal to the enumerated total is produced, and the run ends with exit
\* status 1.
C26_NoBatchEndsWithStatusOne ==
  NoBatchPossible =>
    /\ ~mutated
    /\ kb_index = 0
    /\ ~(summary_printed /\ success_count + failure_count = Total)
    /\ pc = "done" => exit_code = 1

\* C26 as the code has it: the same, except that a run cancelled at the
\* prompt (no --dry-run, no --confirm, an answer other than DELETE) ends
\* with status 0 before the batch size is ever used.
C26_NoBatchEndsWithStatusOneUnlessCancelled ==
  NoBatchPossible =>
    /\ ~mutated
    /\ kb_index = 0
    /\ child_calls = 0
    /\ kb_calls = 0
    /\ ~(summary_printed /\ success_count + failure_count = Total)
    /\ pc = "done" =>
         exit_code = (IF prompted /\ Cancelled(response) THEN 0 ELSE 1)

\* With a negative batch size the loop was empty, the counts 0 and 0 were
\* printed and the success rate ended the run with status 1.
C26_Witness ==
  /\ version = "v2"
  /\ batch_size < 0
  /\ Total = 2
  /\ summary_printed
  /\ pc = "done"
  /\ exit_code = 1

AgentPolled ==
  /\ pstep = "wait_agent"
  /\ (pstep' # pstep \/ agent_attempt' # agent_attempt)

\* The status wait_for_agent_status works with after that call.
Observed == IF agent_seen' = "exception" THEN "UNKNOWN" ELSE agent_seen'

\* C28: wait_for_agent_status makes at most max_retries get_agent calls, and
\* each call has one of three results: the observed status is the expected
\* one and the function returns; the status is FAILED, DELETING or DELETED
\* and it raises at once; or neither, and it polls again unless this was
\* the max_retries-th poll, when it raises TimeoutError.
C28_AgentWaitEndsInOneOfThreeWays ==
  /\ [](pstep = "wait_agent" => agent_attempt \in 0 .. (agent_max_retries - 1))
  /\ [][AgentPolled =>
          /\ Observed = ExpectedStatus(agent_stage) =>
               pstep' = AfterAgentWait(agent_stage)
          /\ Observed \in {"FAILED", "DELETING", "DELETED"} => pstep' = "raised"
          /\ (/\ Observed # ExpectedStatus(agent_stage)
              /\ Observed \notin {"FAILED", "DELETING", "DELETED"}) =>
               IF agent_attempt + 1 = agent_max_retries
                 THEN pstep' = "raised" /\ agent_attempt' = agent_attempt
                 ELSE pstep' = "wait_agent" /\ agent_attempt' = agent_attempt + 1
          /\ pstep' \in {"wait_agent", "raised", AfterAgentWait(agent_stage)}]_vars

\* The first wait ran out: max_retries polls, the last one still CREATING.
C28_Witness ==
  /\ pstep = "raised"
  /\ agent_stage = 1
  /\ agent_attempt = agent_max_retries - 1
  /\ agent_seen = "CREATING"

\* C29: an exception raised by get_agent inside wait_for_agent_status does
\* not leave the function: the poll counts as status UNKNOWN, uses up one
\* of the max_retries attempts, and the loop polls again (or, on the last
\* attempt, ends with TimeoutError as after any other unfinished status).
C29_PollExceptionIsSwallowed ==
  [][(AgentPolled /\ agent_seen' = "exception") =>
       /\ CurrentStatus(agent_seen') = "UNKNOWN"
       /\ agent_attempt + 1 < agent_max_retries =>
            (pstep' = "wait_agent" /\ agent_attempt' = agent_attempt + 1
               /\ agent_stage' = agent_stage)
       /\ agent_attempt + 1 = agent_max_retries => pstep' = "raised"]_vars

\* get_agent raised on the second poll of the first wait, and polling went
\* on.
C29_Witness ==
  /\ pstep = "wait_agent"
  /\ agent_stage = 1
  /\ agent_attempt = 2
  /\ agent_seen = "exception"

Invoked == \E h \in 1 .. Len(plog) : plog[h] = "invoke_agent"

\* C30: invoke_agent is called only after wait_for_alias_ready has seen the
\* alias READY or PREPARED; when the alias is seen FAILED, or is still not
\* ready when the timeout has passed, wait_for_alias_ready raises, and after
\* that the agent is never invoked.
C30_InvokedOnlyWhenAliasReady ==
  /\ []((pstep = "invoke_agent" \/ Invoked) => alias_seen \in {"READY", "PREPARED"})
  /\ [][pstep' = "invoke_agent" =>
          (pstep = "wait_alias" /\ alias_seen' \in {"READY", "PREPARED"})]_vars
  /\ [][(pstep = "wait_alias" /\ alias_seen' = "FAILED") => pstep' = "raised"]_vars
  /\ [][(pstep = "wait_alias" /\ alias_seen' \notin {"READY", "PREPARED"}
            /\ elapsed > alias_timeout) => pstep' = "raised"]_vars
  /\ [](pstep = "wait_alias" => elapsed <= alias_timeout + alias_interval)
  /\ [](pstep = "raised" => ~Invoked)
  /\ [][pstep = "raised" => pstep' = "raised"]_vars

\* The alias was seen PREPARED and the agent was invoked.
C30_Witness ==
  /\ Invoked
  /\ alias_seen = "PREPARED"
  /\ pstep = "done"

\* The call of this name was made and returned.
Did(name) == \E h \in 1 .. Len(plog) : plog[h] = name

\* C31: create_data_source is called only after wait_for_kb_active has seen
\* the knowledge base ACTIVE; when it sees FAILED it raises, and then no
\* data source, ingestion job, agent or alias is created.
C31_DataSourceOnlyWhenKnowledgeBaseActive ==
  /\ []((pstep = "create_data_source" \/ Did("create_data_source")) =>
         seen.kb = "ACTIVE")
  /\ [][pstep' = "create_data_source" =>
          (pstep = "wait_kb" /\ seen'.kb = "ACTIVE")]_vars
  /\ [][(pstep = "wait_kb" /\ seen'.kb = "FAILED") => pstep' = "raised"]_vars
  /\ [](seen.kb = "FAILED" =>
         /\ pstep = "raised"
         /\ ~Did("create_data_source")
         /\ ~Did("start_ingestion_job")
         /\ ~Did("create_agent")
         /\ ~Did("create_agent_alias"))
  /\ [][pstep = "raised" => (pstep' = "raised" /\ plog' = plog)]_vars

\* The knowledge base was created and then seen FAILED.
C31_Witness ==
  /\ Did("create_knowledge_base")
  /\ seen.kb = "FAILED"
  /\ pstep = "raised"

\* C32: the agent is created only after the ingestion job was seen COMPLETE;
\* when the job is seen FAILED start_ingestion raises and create_agent is
\* never reached; the sample retrieve call is made only after COMPLETE, and
\* when it raises the script still goes on to create the agent.
C32_AgentOnlyAfterIngestionComplete ==
  /\ []((pstep = "create_agent" \/ Did("create_agent")) =>
         seen.ingestion = "COMPLETE")
  /\ [][(pstep = "wait_ingestion" /\ seen'.ingestion = "FAILED") =>
          pstep' = "raised"]_vars
  /\ [](seen.ingestion = "FAILED" => (pstep = "raised" /\ ~Did("create_agent")))
  /\ []((pstep = "retrieve" \/ seen.retrieve # "none") =>
         seen.ingestion = "COMPLETE")
  /\ [][(pstep = "retrieve" /\ seen'.retrieve \in {"ok", "exception"}) =>
          (pstep' = "create_agent" /\ plog' = plog)]_vars
  /\ [][pstep = "raised" => pstep' = "raised"]_vars

\* The retrieve call raised and the agent was created all the same.
C32_Witness ==
  /\ seen.retrieve = "exception"
  /\ Did("create_agent")

\* C33: inside create_agent the alias is created only when the knowledge
\* base has been associated, the agent has been prepared again after that
\* and has then been seen PREPARED; after each prepare_agent call the next
\* thing the script does is wait, and it makes no further creating call
\* until it has seen PREPARED; a terminal status or the end of the attempts
\* raises, and then neither the association nor the alias creation that
\* would follow takes place.
C33_AliasAfterAssociationAndPrepare ==
  /\ [][pstep' = "create_agent_alias" =>
          /\ pstep = "wait_agent"
          /\ agent_seen' = "PREPARED"
          /\ \E a, b \in 1 .. Len(plog) :
               /\ a < b
               /\ plog[a] = "associate_agent_knowledge_base"
               /\ plog[b] = "prepare_agent"
               /\ b = Len(plog)]_vars
  /\ [][pstep' = "associate_agent_knowledge_base" =>
          /\ pstep = "wait_agent"
          /\ agent_seen' = "PREPARED"
          /\ plog # <<>> /\ plog[Len(plog)] = "prepare_agent"]_vars
  /\ [](Did("create_agent_alias") => Did("associate_agent_knowledge_base"))
  /\ [][(pstep = "prepare_agent" /\ pstep' # pstep) =>
          pstep' \in {"wait_agent", "raised"}]_vars
  /\ [][plog' # plog => pstep # "wait_agent"]_vars
  /\ [][(pstep = "wait_agent" /\ agent_stage >= 2
           /\ pstep' \notin {"wait_agent", "raised"}) =>
          agent_seen' = "PREPARED"]_vars
  /\ [][(pstep = "wait_agent" /\ pstep' # pstep
           /\ agent_seen' \in {"FAILED", "DELETING", "DELETED"}) =>
          pstep' = "raised"]_vars
  /\ [][pstep = "raised" => (pstep' = "raised" /\ plog' = plog)]_vars

\* The alias was created after association, second preparation and wait.
C33_Witness ==
  /\ Did("create_agent_alias")
  /\ agent_stage = 3
  /\ agent_seen = "PREPARED"
  /\ plog[Len(plog)] = "create_agent_alias"

\* How often the script has logged the step `name`.
Times(name) == Cardinality({h \in 1 .. Len(plog) : plog[h] = name})

\* C34: create_collection goes on to its wait when the collection exists
\* already (ConflictException is not raised further); it gets to the vector
\* index, and returns, only after a listing has shown the collection with
\* status ACTIVE; the vector index creation is attempted once, after that
\* listing, and never again.
C34_CollectionActiveThenIndexOnce ==
  /\ [][(pstep = "create_collection" /\ seen'.created = "ConflictException") =>
          pstep' = "wait_collection"]_vars
  /\ [][pstep' = "create_vector_index" =>
          (pstep = "wait_collection" /\ seen'.collection = "ACTIVE")]_vars
  /\ [][(pstep = "create_vector_index" /\ pstep' # pstep) =>
          /\ pstep' \in {"wait_index", "raised"}
          /\ seen.collection = "ACTIVE"
          /\ seen.put = "none" /\ seen'.put # "none"]_vars
  /\ [][seen.put # "none" => seen'.put = seen.put]_vars
  /\ [](Did("create_vector_index") =>
          (Times("create_vector_index") = 1 /\ seen.collection = "ACTIVE"))
  /\ [](pstep \notin {"ensure_opensearch_policies", "create_collection",
                      "wait_collection", "create_vector_index", "raised"} =>
          (seen.collection = "ACTIVE" /\ Times("create_vector_index") = 1))

\* The collection existed already, was seen ACTIVE, the index creation was
\* attempted once and create_collection has returned.
C34_Witness ==
  /\ seen.created = "ConflictException"
  /\ seen.collection = "ACTIVE"
  /\ pstep = "wait_index"
  /\ Times("create_vector_index") = 1

\* C35: a vector index request that is rejected or fails is not raised by
\* create_vector_index: the script goes on to wait_for_index_ready.  The
\* knowledge base is created only when a request of that wait, begun with
\* time left, has shown the index in the listing; when the time is used up
\* the wait raises, and create_knowledge_base is never called.
C35_KnowledgeBaseOnlyWhenIndexListed ==
  /\ [][(pstep = "create_vector_index"
           /\ seen'.put \in {"rejected", "request_error"}) =>
          (pstep' = "wait_index" /\ elapsed' = 0)]_vars
  /\ [][pstep' = "create_knowledge_base" =>
          /\ pstep = "wait_index"
          /\ elapsed < index_timeout
          /\ seen'.index = "listed"]_vars
  /\ [][(pstep = "wait_index" /\ elapsed >= index_timeout) =>
          (pstep' = "raised" /\ plog' = plog)]_vars
  /\ [][pstep = "raised" => (pstep' = "raised" /\ plog' = plog)]_vars
  /\ [](Did("create_knowledge_base") => seen.index = "listed")
  /\ [](pstep \in {"create_knowledge_base", "wait_kb"} => seen.index = "listed")

\* The index request was rejected, the index never showed in the listing,
\* the wait ran out of time and no knowledge base was created.
C35_Witness ==
  /\ seen.put = "rejected"
  /\ seen.index = "not_listed"
  /\ pstep = "raised"
  /\ ~Did("create_knowledge_base")

\* C36: invoke_agent always returns to its caller: when the runtime call or
\* the reading of the completion stream raises a stream error or any other
\* exception it returns the empty string, and it returns the empty string
\* as well for a response that has neither completion nor
\* completionResponse.
C36_InvokeAgentReturnsEmptyOnError ==
  /\ [][pstep = "invoke_agent" =>
          /\ pstep' = "done"
          /\ seen'.invoke \in InvokeOutcomes
          /\ seen'.answer \in Texts
          /\ (seen'.invoke \in InvokeRaises \cup {"unexpected"}) =>
               seen'.answer = ""]_vars
  /\ [](seen.invoke # "none" => pstep = "done")

\* The completion stream raised something other than a stream error while
\* it was read, and invoke_agent returned the empty string.
C36_Witness ==
  /\ pstep = "done"
  /\ seen.invoke = "completion_exception"
  /\ seen.answer = ""

====
